---- MODULE Spec2Model ----
(***************************************************************************)
(* Model of leaven's instruction lowering (instructions.go) and of the     *)
(* getelementptr expression translator (expression.go).                    *)
(*                                                                         *)
(* Both functions are pure: a state of the model is one call (which        *)
(* function, on which input) together with what the call produced.  Text   *)
(* is a sequence of string fragments, one per literal piece or %-argument  *)
(* of the fmt.Sprintf that built it; Str flattens it to the Go string.     *)
(***************************************************************************)
EXTENDS Integers, Sequences, FiniteSets, TLC

VARIABLES fn, inst, bits, out

vars == <<fn, inst, bits, out>>

-----------------------------------------------------------------------------
(* Bounds of the model.                                                    *)

\* longest index list of a getelementptr
MaxIndices == 3
\* nesting depth of the aggregate types handed to getelementptr
MaxDepth == 2
\* integer index constants range over -1 .. MaxConst
MaxConst == 1
\* longest argument list of a call
MaxArgs == 2
\* widest source operand of sext / zext whose bit patterns are enumerated
MaxSrcBits == 8
\* lshr result widths range over 1 .. MaxShiftBits (and 16, 32, 64)
MaxShiftBits == 10

-----------------------------------------------------------------------------
(* Text.                                                                   *)

RECURSIVE Str(_)
Str(t) == IF t = <<>> THEN "" ELSE Head(t) \o Str(Tail(t))

RECURSIVE Join(_, _)
Join(ts, sep) ==
    IF ts = <<>> THEN <<>>
    ELSE IF Len(ts) = 1 THEN Head(ts)
    ELSE Head(ts) \o <<sep>> \o Join(Tail(ts), sep)

\* t has the fragments of p as a contiguous run
Contains(t, p) ==
    \E i \in 1..(Len(t) - Len(p) + 1) : SubSeq(t, i, i + Len(p) - 1) = p

-----------------------------------------------------------------------------
(* IR types (llir/llvm/ir/types).                                          *)

IntType(n)      == [k |-> "int", bits |-> n]
PointerType(t)  == [k |-> "ptr", elem |-> t]
ArrayType(n, t) == [k |-> "array", len |-> n, elem |-> t]
StructType(fs)  == [k |-> "struct", fields |-> fs]
Void            == [k |-> "void"]
\* a type shape the type renderer does not support (a vector, a float, ...)
OtherType       == [k |-> "other"]
FuncType        == [k |-> "func"]

I8  == IntType(8)
I32 == IntType(32)
I64 == IntType(64)

RECURSIVE TypeString(_)
TypeString(t) ==
    CASE t.k = "int"    -> "i" \o ToString(t.bits)
      [] t.k = "ptr"    -> TypeString(t.elem) \o "*"
      [] t.k = "array"  -> "[" \o ToString(t.len) \o " x " \o TypeString(t.elem) \o "]"
      [] t.k = "struct" -> "{ " \o Str(Join([i \in 1..Len(t.fields) |-> <<TypeString(t.fields[i])>>], ", ")) \o " }"
      [] t.k = "void"   -> "void"
      [] t.k = "func"   -> "void ()"
      [] OTHER          -> "<4 x float>"

\* Go's %T of a type: the name of the Go type that implements it
GoTypeName(t) ==
    CASE t.k = "int"    -> "*types.IntType"
      [] t.k = "ptr"    -> "*types.PointerType"
      [] t.k = "array"  -> "*types.ArrayType"
      [] t.k = "struct" -> "*types.StructType"
      [] t.k = "void"   -> "*types.VoidType"
      [] t.k = "func"   -> "*types.FuncType"
      [] OTHER          -> "*types.VectorType"

\* compares the kinds of the two types only
TypesEqual_Shallow(t, u) == t.k = u.k

TypesEqual(t, u) == t = u

-----------------------------------------------------------------------------
(* IR values.  k = "int" is a *constant.Int with value x; ok says whether  *)
(* the value renderers support the value's shape.                          *)

Reg(id, t)      == [id |-> id, typ |-> t, k |-> "reg", x |-> 0, ok |-> TRUE]
BadReg(id, t)   == [id |-> id, typ |-> t, k |-> "reg", x |-> 0, ok |-> FALSE]
ConstInt(n, t)  == [id |-> ToString(n), typ |-> t, k |-> "int", x |-> n, ok |-> TRUE]
Global(id, t)   == [id |-> id, typ |-> t, k |-> "global", x |-> 0, ok |-> TRUE]
BadGlobal(id, t) == [id |-> id, typ |-> t, k |-> "global", x |-> 0, ok |-> FALSE]

IsConstantInt(v) == v.k = "int"

\* reports a negative value as positive
Sign_Magnitude(n) == IF n = 0 THEN 0 ELSE 1

Sign(n) == IF n < 0 THEN -1 ELSE IF n = 0 THEN 0 ELSE 1

\* Go's %v of a value: its type and its identifier
ValueString(v) ==
    TypeString(v.typ) \o " "
    \o (IF v.k = "reg" THEN "%" ELSE IF v.k = "global" THEN "@" ELSE "") \o v.id

Quote(s) == "\"" \o s \o "\""

-----------------------------------------------------------------------------
(* Rendering collaborators.  A rendering is [ok, text, err, call]: call    *)
(* records the invocation, so that a lowering can be asked which           *)
(* collaborators it invoked before it returned.                            *)

Natural(v) == IF v.k = "int" THEN <<ToString(v.x)>> ELSE <<v.id>>

Rendering(name, v, text) ==
    [ok   |-> v.ok,
     text |-> IF v.ok THEN text ELSE <<>>,
     err  |-> IF v.ok THEN <<>> ELSE <<"unsupported value: ", ValueString(v)>>,
     call |-> [fn |-> name, arg |-> ValueString(v)]]

FormatValue(v) == Rendering("FormatValue", v, Natural(v))

FormatSigned(v) ==
    Rendering("FormatSigned", v,
              IF v.typ.k = "int"
              THEN <<"int", ToString(v.typ.bits), "(">> \o Natural(v) \o <<")">>
              ELSE Natural(v))

FormatUnsigned(v) ==
    Rendering("FormatUnsigned", v,
              IF v.typ.k = "int"
              THEN <<"uint", ToString(v.typ.bits), "(">> \o Natural(v) \o <<")">>
              ELSE Natural(v))

RECURSIVE TypeSupported(_)
TypeSupported(t) ==
    CASE t.k = "int"    -> TRUE
      [] t.k = "ptr"    -> TypeSupported(t.elem)
      [] t.k = "array"  -> TypeSupported(t.elem)
      [] t.k = "struct" -> \A i \in 1..Len(t.fields) : TypeSupported(t.fields[i])
      [] OTHER          -> FALSE

RECURSIVE GoType(_)
GoType(t) ==
    CASE t.k = "int"    -> <<"int", ToString(t.bits)>>
      [] t.k = "ptr"    -> <<"*">> \o GoType(t.elem)
      [] t.k = "array"  -> <<"[", ToString(t.len), "]">> \o GoType(t.elem)
      [] t.k = "struct" -> <<"struct { ">>
                           \o Join([i \in 1..Len(t.fields) |->
                                      <<"f", ToString(i - 1), " ">> \o GoType(t.fields[i])], "; ")
                           \o <<" }">>
      [] OTHER          -> <<>>

TypeSpec(t) ==
    [ok   |-> TypeSupported(t),
     text |-> IF TypeSupported(t) THEN GoType(t) ELSE <<>>,
     err  |-> IF TypeSupported(t) THEN <<>> ELSE <<"unsupported type: ", TypeString(t)>>,
     call |-> [fn |-> "TypeSpec", arg |-> TypeString(t)]]

VariableName(i) == i.name

-----------------------------------------------------------------------------
(* Outcomes of a call: a normal return of (text, nil) or ("", err), or a   *)
(* run-time panic (st = "panic").  calls lists the collaborator            *)
(* invocations made.                                                       *)

Return(text, calls) == [st |-> "ok", text |-> text, err |-> <<>>, calls |-> calls]
Error(err, calls)   == [st |-> "err", text |-> <<>>, err |-> err, calls |-> calls]
NoOutcome           == [st |-> "none", text |-> <<>>, err |-> <<>>, calls |-> <<>>]

-----------------------------------------------------------------------------
(* expression.go: GetElementPtr.  A frame is the state of the function     *)
(* between two iterations of its loop over indices[1:].                    *)

Running(result, currentType, takeAddress, calls) ==
    [st |-> "run", result |-> result, currentType |-> currentType,
     takeAddress |-> takeAddress, err |-> <<>>, calls |-> calls]

Stopped(st, err, calls) ==
    [st |-> st, result |-> <<>>, currentType |-> Void,
     takeAddress |-> FALSE, err |-> err, calls |-> calls]

\* lines 13-56: the type check, index 0 and the base pointer
GepPrefix(elemType, src, indices) ==
    IF src.typ.k # "ptr"
    THEN Stopped("err", <<"non-pointer source parameter: ", TypeString(src.typ)>>, <<>>)
    ELSE IF ~TypesEqual(src.typ.elem, elemType)
    THEN Stopped("err", <<"mismatched source and element types">>, <<>>)
    ELSE
    LET zeroFirstIndex     == IsConstantInt(indices[1]) /\ Sign(indices[1].x) = 0
        positiveFirstIndex == IsConstantInt(indices[1]) /\ Sign(indices[1].x) = 1
        source             == FormatValue(src)
        firstIndex         == FormatValue(indices[1])
        et                 == TypeSpec(elemType)
        offset ==
            IF positiveFirstIndex
            THEN firstIndex.text \o <<" * unsafe.Sizeof(*(*">> \o et.text \o <<")(nil))">>
            ELSE <<"uintptr(int64(">> \o firstIndex.text
                 \o <<")) * unsafe.Sizeof(*(*">> \o et.text \o <<")(nil))">>
        sum == <<"uintptr(unsafe.Pointer(">> \o source.text \o <<")) + ">> \o offset
    IN  IF ~source.ok
        THEN Stopped("err", <<"error translating source pointer (",
                              Quote(ValueString(src)), "): ">> \o source.err,
                     <<source.call>>)
        ELSE IF zeroFirstIndex
        THEN Running(source.text, elemType, FALSE, <<source.call>>)
        ELSE IF ~firstIndex.ok
        THEN Stopped("err", <<"error translating first index (",
                              ValueString(indices[1]), "): ">> \o firstIndex.err,
                     <<source.call, firstIndex.call>>)
        ELSE IF ~et.ok
        THEN Stopped("err", <<"error translating element type (",
                              TypeString(elemType), "): ">> \o et.err,
                     <<source.call, firstIndex.call, et.call>>)
        ELSE Running(<<"(*">> \o et.text \o <<")(unsafe.Pointer(">> \o sum \o <<"))">>,
                     elemType, FALSE, <<source.call, firstIndex.call, et.call>>)

\* lines 60-67: the active type is an array
GepArrayCase(f, ct, index) ==
    LET v == FormatValue(index)
    IN  IF ~v.ok
        THEN Stopped("err", <<"error translating index (", ValueString(index), "): ">>
                            \o v.err,
                     Append(f.calls, v.call))
        ELSE Running(f.result \o <<"[">> \o v.text \o <<"]">>, ct.elem, TRUE,
                     Append(f.calls, v.call))

\* lines 69-76: the active type is a struct; Fields[...] panics when the
\* constant is not the ordinal of a field
GepStructCase(f, ct, index) ==
    IF ~IsConstantInt(index)
    THEN Stopped("err", <<"non-constant index into struct: ", ValueString(index)>>, f.calls)
    ELSE IF index.x \notin 0..(Len(ct.fields) - 1)
    THEN Stopped("panic", <<>>, f.calls)
    ELSE Running(f.result \o <<".f", ToString(index.x)>>, ct.fields[index.x + 1], TRUE,
                 f.calls)

\* lines 58-81: one iteration of the loop, on one index
GepStep(f, index) ==
    IF f.st # "run" THEN f
    ELSE CASE f.currentType.k = "array"  -> GepArrayCase(f, f.currentType, index)
           [] f.currentType.k = "struct" -> GepStructCase(f, f.currentType, index)
           [] OTHER ->
                Stopped("err", <<"unsupported type to index into: ",
                                 TypeString(f.currentType)>>, f.calls)

\* the frame after the first n iterations of the loop
RECURSIVE GepWalk(_, _, _, _)
GepWalk(elemType, src, indices, n) ==
    IF n = 0 THEN GepPrefix(elemType, src, indices)
    ELSE GepStep(GepWalk(elemType, src, indices, n - 1), indices[n + 1])

\* returns the accumulated text without the address-of
GepFinish_NoPrefix(f) ==
    IF f.st = "run"
    THEN Return(f.result, f.calls)
    ELSE [st |-> f.st, text |-> <<>>, err |-> f.err, calls |-> f.calls]

\* lines 83-87
GepFinish(f) ==
    IF f.st = "run"
    THEN Return(IF f.takeAddress THEN <<"&">> \o f.result ELSE f.result, f.calls)
    ELSE [st |-> f.st, text |-> <<>>, err |-> f.err, calls |-> f.calls]

GetElementPtr(elemType, src, indices) ==
    GepFinish(GepWalk(elemType, src, indices, Len(indices) - 1))

-----------------------------------------------------------------------------
(* instructions.go: TranslateInstruction, one definition per case of the   *)
(* type switch.                                                            *)

\* the shape shared by the two-operand cases: x and y are the renderings
\* of inst.X and inst.Y, in the order the code asks for them
Binary(i, x, y, op) ==
    IF ~x.ok
    THEN Error(<<"error translating left operand (", ValueString(i.X), "): ">> \o x.err,
               <<x.call>>)
    ELSE IF ~y.ok
    THEN Error(<<"error translating right operand (", ValueString(i.X), "): ">> \o y.err,
               <<x.call, y.call>>)
    ELSE Return(<<VariableName(i), " = ">> \o x.text \o <<op>> \o y.text,
                <<x.call, y.call>>)

TranslateAdd(i) == Binary(i, FormatValue(i.X), FormatValue(i.Y), " + ")
TranslateAnd(i) == Binary(i, FormatValue(i.X), FormatValue(i.Y), " & ")
TranslateMul(i) == Binary(i, FormatValue(i.X), FormatValue(i.Y), " * ")
TranslateOr(i)  == Binary(i, FormatValue(i.X), FormatValue(i.Y), " | ")
TranslateSub(i) == Binary(i, FormatValue(i.X), FormatValue(i.Y), " - ")
TranslateShl(i) == Binary(i, FormatValue(i.X), FormatUnsigned(i.Y), " << ")

TranslateAlloca(i) ==
    LET t      == TypeSpec(i.ElemType)
        nElems == FormatValue(i.NElems)
    IN  IF ~t.ok
        THEN Error(<<"error translating type (", TypeString(i.ElemType), "): ">> \o t.err,
                   <<t.call>>)
        ELSE IF ~i.hasNElems
        THEN Return(<<VariableName(i), " = new(">> \o t.text \o <<")">>, <<t.call>>)
        ELSE IF ~nElems.ok
        THEN Error(<<"error translating NElems (", ValueString(i.NElems), "): ">>
                   \o nElems.err, <<t.call, nElems.call>>)
        ELSE Return(<<VariableName(i), " = &make([]">> \o t.text \o <<", ">>
                    \o nElems.text \o <<")[0]">>, <<t.call, nElems.call>>)

TranslateBitCast(i) ==
    LET from == FormatValue(i.From)
        to   == TypeSpec(i.To)
    IN  IF ~from.ok
        THEN Error(<<"error translating source (", ValueString(i.From), "): ">> \o from.err,
                   <<from.call>>)
        ELSE IF ~to.ok
        THEN Error(<<"error translating type (", TypeString(i.To), "): ">> \o to.err,
                   <<from.call, to.call>>)
        ELSE Return(<<VariableName(i), " = (">> \o to.text \o <<")(unsafe.Pointer(">>
                    \o from.text \o <<"))">>, <<from.call, to.call>>)

\* elides the start hint only
LifetimeIntrinsics_StartOnly == {"llvm.lifetime.start"}

LifetimeIntrinsics == {"llvm.lifetime.start", "llvm.lifetime.end"}
ObjectSizeIntrinsic == "llvm.objectsize.i64.p0i8"

TranslateCall(i) ==
    LET callee  == FormatValue(i.Callee)
        n       == Len(i.Args)
        arg(j)  == FormatValue(i.Args[j])
        failing == {j \in 1..n : ~arg(j).ok}
        first   == CHOOSE j \in failing : \A l \in failing : j <= l
        args    == [j \in 1..n |-> arg(j).text]
        all     == <<callee.call>> \o [j \in 1..n |-> arg(j).call]
    IN  IF ~callee.ok
        THEN Error(<<"error translating callee (", ValueString(i.Callee), "): ">>
                   \o callee.err, <<callee.call>>)
        ELSE IF Str(callee.text) \in LifetimeIntrinsics
        THEN Return(<<>>, <<callee.call>>)
        ELSE IF Str(callee.text) = ObjectSizeIntrinsic
        THEN Return(<<VariableName(i), " = -1">>, <<callee.call>>)
        ELSE IF failing # {}
        THEN Error(<<"error translating argument ", ToString(first - 1), " (",
                     ValueString(i.Args[first]), "): ">> \o arg(first).err,
                   SubSeq(all, 1, first + 1))
        ELSE IF TypesEqual(i.Typ, Void)
        THEN Return(callee.text \o <<"(">> \o Join(args, ", ") \o <<")">>, all)
        ELSE Return(<<VariableName(i), " = ">> \o callee.text \o <<"(">>
                    \o Join(args, ", ") \o <<")">>, all)

\* case *ir.InstGetElementPtr, lines 90-133: the type check, index 0 and
\* the base pointer
InstGepPrefix(i) ==
    IF i.Src.typ.k # "ptr"
    THEN Stopped("err", <<"non-pointer source parameter: ", TypeString(i.Src.typ)>>, <<>>)
    ELSE IF ~TypesEqual(i.Src.typ.elem, i.ElemType)
    THEN Stopped("err", <<"mismatched source and element types">>, <<>>)
    ELSE
    LET zeroFirstIndex     == IsConstantInt(i.Indices[1]) /\ Sign(i.Indices[1].x) = 0
        positiveFirstIndex == IsConstantInt(i.Indices[1]) /\ Sign(i.Indices[1].x) = 1
        source             == FormatValue(i.Src)
        firstIndex         == FormatValue(i.Indices[1])
        elemType           == TypeSpec(i.ElemType)
        offset ==
            IF positiveFirstIndex
            THEN firstIndex.text \o <<" * unsafe.Sizeof(*(*">> \o elemType.text
                 \o <<")(nil))">>
            ELSE <<"uintptr(int64(">> \o firstIndex.text
                 \o <<")) * unsafe.Sizeof(*(*">> \o elemType.text \o <<")(nil))">>
        sum == <<"uintptr(unsafe.Pointer(">> \o source.text \o <<")) + ">> \o offset
    IN  IF ~source.ok
        THEN Stopped("err", <<"error translating source pointer (",
                              Quote(ValueString(i.Src)), "): ">> \o source.err,
                     <<source.call>>)
        ELSE IF zeroFirstIndex
        THEN Running(source.text, i.ElemType, FALSE, <<source.call>>)
        ELSE IF ~firstIndex.ok
        THEN Stopped("err", <<"error translating first index (",
                              ValueString(i.Indices[1]), "): ">> \o firstIndex.err,
                     <<source.call, firstIndex.call>>)
        ELSE IF ~elemType.ok
        THEN Stopped("err", <<"error translating element type (",
                              TypeString(i.ElemType), "): ">> \o elemType.err,
                     <<source.call, firstIndex.call, elemType.call>>)
        ELSE Running(<<"(*">> \o elemType.text \o <<")(unsafe.Pointer(">> \o sum \o <<"))">>,
                     i.ElemType, FALSE, <<source.call, firstIndex.call, elemType.call>>)

\* lines 137-144: the active type is an array
InstGepArrayCase(f, ct, index) ==
    LET v == FormatValue(index)
    IN  IF ~v.ok
        THEN Stopped("err", <<"error translating index (", ValueString(index), "): ">>
                            \o v.err,
                     Append(f.calls, v.call))
        ELSE Running(f.result \o <<"[">> \o v.text \o <<"]">>, ct.elem, TRUE,
                     Append(f.calls, v.call))

\* takes a non-constant index for field 0 instead of rejecting it
InstGepStructCase_AnyIndex(f, ct, index) ==
    IF index.x \notin 0..(Len(ct.fields) - 1)
    THEN Stopped("panic", <<>>, f.calls)
    ELSE Running(f.result \o <<".f", ToString(index.x)>>, ct.fields[index.x + 1], TRUE,
                 f.calls)

\* lines 146-153: the active type is a struct; Fields[...] panics when the
\* constant is not the ordinal of a field
InstGepStructCase(f, ct, index) ==
    IF ~IsConstantInt(index)
    THEN Stopped("err", <<"non-constant index into struct: ", ValueString(index)>>, f.calls)
    ELSE IF index.x \notin 0..(Len(ct.fields) - 1)
    THEN Stopped("panic", <<>>, f.calls)
    ELSE Running(f.result \o <<".f", ToString(index.x)>>, ct.fields[index.x + 1], TRUE,
                 f.calls)

\* lines 135-158: one iteration of the loop over inst.Indices[1:]
InstGepStep(f, index) ==
    IF f.st # "run" THEN f
    ELSE CASE f.currentType.k = "array"  -> InstGepArrayCase(f, f.currentType, index)
           [] f.currentType.k = "struct" -> InstGepStructCase(f, f.currentType, index)
           [] OTHER ->
                Stopped("err", <<"unsupported type to index into: ",
                                 TypeString(f.currentType)>>, f.calls)

\* the frame after the first n iterations of the loop
RECURSIVE InstGepWalk(_, _)
InstGepWalk(i, n) ==
    IF n = 0 THEN InstGepPrefix(i)
    ELSE InstGepStep(InstGepWalk(i, n - 1), i.Indices[n + 1])

\* assigns the accumulated text without the address-of
InstGepFinish_NoAddress(i, f) ==
    IF f.st = "run"
    THEN Return(<<VariableName(i), " = ">> \o f.result, f.calls)
    ELSE [st |-> f.st, text |-> <<>>, err |-> f.err, calls |-> f.calls]

\* lines 160-166
InstGepFinish(i, f) ==
    IF f.st = "run"
    THEN Return(IF f.takeAddress
                THEN <<VariableName(i), " = &">> \o f.result
                ELSE <<VariableName(i), " = ">> \o f.result, f.calls)
    ELSE [st |-> f.st, text |-> <<>>, err |-> f.err, calls |-> f.calls]

TranslateGetElementPtr(i) == InstGepFinish(i, InstGepWalk(i, Len(i.Indices) - 1))

SignedPreds   == {"sge", "sgt", "sle", "slt"}
UnsignedPreds == {"uge", "ugt", "ule", "ult"}

PredOp(pred) ==
    CASE pred = "eq" -> " == "
      [] pred = "ne" -> " != "
      [] pred \in {"sge", "uge"} -> " >= "
      [] pred \in {"sgt", "ugt"} -> " > "
      [] pred \in {"sle", "ule"} -> " <= "
      [] pred \in {"slt", "ult"} -> " < "

PredFormat(pred, v) ==
    IF pred \in SignedPreds THEN FormatSigned(v)
    ELSE IF pred \in UnsignedPreds THEN FormatUnsigned(v)
    ELSE FormatValue(v)

TranslateICmp(i) ==
    IF i.Pred \notin {"eq", "ne"} \cup SignedPreds \cup UnsignedPreds
    THEN Error(<<"unsupported comparison predicate: ", i.Pred>>, <<>>)
    ELSE Binary(i, PredFormat(i.Pred, i.X), PredFormat(i.Pred, i.Y), PredOp(i.Pred))

TranslateLoad(i) ==
    LET src == FormatValue(i.Src)
    IN  IF ~src.ok
        THEN Error(<<"error translating source (", ValueString(i.Src), "): ">> \o src.err,
                   <<src.call>>)
        ELSE Return(<<VariableName(i), " = *">> \o src.text, <<src.call>>)

\* re-casts from 8 bits on
NeedsRecast_From8(t) == t.k = "int" /\ t.bits >= 8

\* line 230: the result is re-cast to its signed type
NeedsRecast(t) == t.k = "int" /\ t.bits > 8

TranslateLShr(i) ==
    LET x == FormatUnsigned(i.X)
        y == FormatUnsigned(i.Y)
    IN  IF ~x.ok
        THEN Error(<<"error translating left operand (", ValueString(i.X), "): ">> \o x.err,
                   <<x.call>>)
        ELSE IF ~y.ok
        THEN Error(<<"error translating right operand (", ValueString(i.X), "): ">> \o y.err,
                   <<x.call, y.call>>)
        ELSE IF NeedsRecast(i.Typ)
        THEN Return(<<VariableName(i), " = ", "int", ToString(i.Typ.bits), "(">>
                    \o x.text \o <<" >> ">> \o y.text \o <<")">>, <<x.call, y.call>>)
        ELSE Return(<<VariableName(i), " = ">> \o x.text \o <<" >> ">> \o y.text,
                    <<x.call, y.call>>)

TranslatePtrToInt(i) ==
    LET from == FormatValue(i.From)
        to   == TypeSpec(i.To)
    IN  IF ~from.ok
        THEN Error(<<"error translating source (", ValueString(i.From), "): ">> \o from.err,
                   <<from.call>>)
        ELSE IF ~to.ok
        THEN Error(<<"error translating type (", TypeString(i.To), "): ">> \o to.err,
                   <<from.call, to.call>>)
        ELSE Return(<<VariableName(i), " = ">> \o to.text \o <<"(uintptr(unsafe.Pointer(">>
                    \o from.text \o <<")))">>, <<from.call, to.call>>)

TranslateSelect(i) ==
    LET cond == FormatValue(i.Cond)
        x    == FormatValue(i.X)
        y    == FormatValue(i.Y)
        name == VariableName(i)
    IN  IF ~cond.ok
        THEN Error(<<"error translating condition (", ValueString(i.Cond), "): ">>
                   \o cond.err, <<cond.call>>)
        ELSE IF ~x.ok
        THEN Error(<<"error translating first operand (", ValueString(i.X), "): ">>
                   \o x.err, <<cond.call, x.call>>)
        ELSE IF ~y.ok
        THEN Error(<<"error translating second operand (", ValueString(i.Y), "): ">>
                   \o y.err, <<cond.call, x.call, y.call>>)
        ELSE Return(<<"if ">> \o cond.text \o <<" { ", name, " = ">> \o x.text
                    \o <<" } else { ", name, " = ">> \o y.text \o <<" }">>,
                    <<cond.call, x.call, y.call>>)

TranslateSExt(i) ==
    LET from == FormatSigned(i.From)
    IN  IF i.To.k # "int"
        THEN Error(<<"unsupported To type for zext: ", GoTypeName(i.To)>>, <<>>)
        ELSE IF ~from.ok
        THEN Error(<<"error translating source (", ValueString(i.From), "): ">> \o from.err,
                   <<from.call>>)
        ELSE Return(<<VariableName(i), " = ", "int", ToString(i.To.bits), "(">>
                    \o from.text \o <<")">>, <<from.call>>)

TranslateStore(i) ==
    LET dest == FormatValue(i.Dst)
        src  == FormatValue(i.Src)
    IN  IF ~dest.ok
        THEN Error(<<"error translating destination (", ValueString(i.Dst), "): ">>
                   \o dest.err, <<dest.call>>)
        ELSE IF ~src.ok
        THEN Error(<<"error translating source (", ValueString(i.Src), "): ">> \o src.err,
                   <<dest.call, src.call>>)
        ELSE Return(<<"*">> \o dest.text \o <<" = ">> \o src.text, <<dest.call, src.call>>)

TranslateTrunc(i) ==
    LET to   == TypeSpec(i.To)
        from == FormatValue(i.From)
    IN  IF ~to.ok
        THEN Error(<<"error translating To type (", TypeString(i.To), "): ">> \o to.err,
                   <<to.call>>)
        ELSE IF ~from.ok
        THEN Error(<<"error translating source (", ValueString(i.From), "): ">> \o from.err,
                   <<to.call, from.call>>)
        ELSE Return(<<VariableName(i), " = ">> \o to.text \o <<"(">> \o from.text \o <<")">>,
                    <<to.call, from.call>>)

\* renders the source signed
TranslateZExt_Signed(i) ==
    LET from == FormatSigned(i.From)
    IN  IF i.To.k # "int"
        THEN Error(<<"unsupported To type for zext: ", GoTypeName(i.To)>>, <<>>)
        ELSE IF ~from.ok
        THEN Error(<<"error translating source (", ValueString(i.From), "): ">> \o from.err,
                   <<from.call>>)
        ELSE Return(<<VariableName(i), " = ", "int", ToString(i.To.bits), "(",
                      "uint", ToString(i.To.bits), "(">> \o from.text \o <<")", ")">>,
                    <<from.call>>)

TranslateZExt(i) ==
    LET from == FormatUnsigned(i.From)
    IN  IF i.To.k # "int"
        THEN Error(<<"unsupported To type for zext: ", GoTypeName(i.To)>>, <<>>)
        ELSE IF ~from.ok
        THEN Error(<<"error translating source (", ValueString(i.From), "): ">> \o from.err,
                   <<from.call>>)
        ELSE Return(<<VariableName(i), " = ", "int", ToString(i.To.bits), "(",
                      "uint", ToString(i.To.bits), "(">> \o from.text \o <<")", ")">>,
                    <<from.call>>)

TranslateUnsupported(i) ==
    Error(<<"unsupported instruction type: ", "*ir.", i.kind>>, <<>>)

TranslateInstruction(i) ==
    CASE i.kind = "InstAdd"           -> TranslateAdd(i)
      [] i.kind = "InstAlloca"        -> TranslateAlloca(i)
      [] i.kind = "InstAnd"           -> TranslateAnd(i)
      [] i.kind = "InstBitCast"       -> TranslateBitCast(i)
      [] i.kind = "InstCall"          -> TranslateCall(i)
      [] i.kind = "InstGetElementPtr" -> TranslateGetElementPtr(i)
      [] i.kind = "InstICmp"          -> TranslateICmp(i)
      [] i.kind = "InstLoad"          -> TranslateLoad(i)
      [] i.kind = "InstLShr"          -> TranslateLShr(i)
      [] i.kind = "InstMul"           -> TranslateMul(i)
      [] i.kind = "InstOr"            -> TranslateOr(i)
      [] i.kind = "InstPtrToInt"      -> TranslatePtrToInt(i)
      [] i.kind = "InstSelect"        -> TranslateSelect(i)
      [] i.kind = "InstSExt"          -> TranslateSExt(i)
      [] i.kind = "InstShl"           -> TranslateShl(i)
      [] i.kind = "InstStore"         -> TranslateStore(i)
      [] i.kind = "InstSub"           -> TranslateSub(i)
      [] i.kind = "InstTrunc"         -> TranslateTrunc(i)
      [] i.kind = "InstZExt"          -> TranslateZExt(i)
      [] OTHER                        -> TranslateUnsupported(i)

-----------------------------------------------------------------------------
(* The inputs: the instructions and resolver calls the model hands to the  *)
(* two functions.                                                          *)

OpVals == {Reg("a", I32), Reg("c", I8), BadReg("b", I32), ConstInt(7, I32)}

Leaves == {I32, PointerType(I8), OtherType}

RECURSIVE TypesOfDepth(_)
TypesOfDepth(d) ==
    IF d = 0 THEN Leaves
    ELSE Leaves
         \cup {ArrayType(2, t) : t \in TypesOfDepth(d - 1)}
         \cup {StructType(<<t, I32>>) : t \in TypesOfDepth(d - 1)}

ElemTypes == TypesOfDepth(MaxDepth)

IndexVals ==
    {ConstInt(n, I64) : n \in (-1)..MaxConst} \cup {Reg("i", I64), BadReg("j", I64)}

\* base pointers for element type t: well typed, of another pointer type,
\* and not a pointer at all; each one renders or fails to render
Bases(t) ==
    {Reg("p", PointerType(t)), BadReg("q", PointerType(t)),
     Reg("m", PointerType(I8)), BadReg("w", PointerType(I8)),
     BadReg("n", I64)}

ArithKinds == {"InstAdd", "InstAnd", "InstMul", "InstOr", "InstSub"}

ScalarTypes == {I32, PointerType(I8), OtherType}

Callees ==
    {Global(n, FuncType) :
        n \in {"llvm.lifetime.start", "llvm.lifetime.end", "llvm.objectsize.i64.p0i8",
               "llvm.lifetime.start.p0i8", "f"}}
    \cup {BadGlobal("llvm.lifetime.end", FuncType), BadGlobal("g", FuncType)}

Preds == {"eq", "ne"} \cup SignedPreds \cup UnsignedPreds \cup {"invalid"}

ShiftTypes == {IntType(w) : w \in (1..MaxShiftBits) \cup {16, 32, 64}} \cup {OtherType}

\* sources of an extension: a register of 1 .. MaxSrcBits bits
ExtSources ==
    UNION {{Reg("x", IntType(w)), BadReg("y", IntType(w))} : w \in 1..MaxSrcBits}

ExtTargets == {IntType(16), IntType(32), PointerType(I8), OtherType}

\* the bit patterns (least significant bit first) a register of type t can
\* hold at run time
BitPatterns(t) == [1..t.bits -> {0, 1}]

-----------------------------------------------------------------------------
(* The state machine: a call is set up (Init), then runs to its outcome.   *)

Call(f, i, b) == fn = f /\ inst = i /\ bits = b /\ out = NoOutcome

Instruction(i) == Call("TranslateInstruction", i, <<>>)

Init ==
    \/ \E k \in ArithKinds \cup {"InstShl"} : \E x \in OpVals, y \in OpVals :
            Instruction([kind |-> k, name |-> "v1", X |-> x, Y |-> y])
    \/ \E t \in ScalarTypes, h \in BOOLEAN, n \in OpVals :
            Instruction([kind |-> "InstAlloca", name |-> "v1",
                         ElemType |-> t, hasNElems |-> h, NElems |-> n])
    \/ \E k \in {"InstBitCast", "InstPtrToInt", "InstTrunc"} :
       \E v \in OpVals, t \in ScalarTypes :
            Instruction([kind |-> k, name |-> "v1", From |-> v, To |-> t])
    \/ \E c \in Callees, t \in {Void, I32} : \E n \in 0..MaxArgs : \E a \in [1..n -> OpVals] :
            Instruction([kind |-> "InstCall", name |-> "v1",
                         Callee |-> c, Args |-> a, Typ |-> t])
    \/ \E t \in ElemTypes : \E b \in Bases(t) :
       \E n \in 1..MaxIndices : \E ix \in [1..n -> IndexVals] :
            Instruction([kind |-> "InstGetElementPtr", name |-> "v1",
                         ElemType |-> t, Src |-> b, Indices |-> ix])
    \/ \E p \in Preds, x \in OpVals, y \in OpVals :
            Instruction([kind |-> "InstICmp", name |-> "v1", Pred |-> p, X |-> x, Y |-> y])
    \/ \E v \in OpVals :
            Instruction([kind |-> "InstLoad", name |-> "v1", Src |-> v])
    \/ \E x \in OpVals, y \in OpVals, t \in ShiftTypes :
            Instruction([kind |-> "InstLShr", name |-> "v1", X |-> x, Y |-> y, Typ |-> t])
    \/ \E c \in OpVals, x \in OpVals, y \in OpVals :
            Instruction([kind |-> "InstSelect", name |-> "v1", Cond |-> c, X |-> x, Y |-> y])
    \/ \E d \in OpVals, v \in OpVals :
            Instruction([kind |-> "InstStore", name |-> "", Dst |-> d, Src |-> v])
    \/ \E k \in {"InstSExt", "InstZExt"} : \E v \in ExtSources, t \in ExtTargets :
       \E b \in BitPatterns(v.typ) :
            Call("TranslateInstruction",
                 [kind |-> k, name |-> "v1", From |-> v, To |-> t], b)
    \/ \E k \in {"InstXor", "InstFAdd"} :
            Instruction([kind |-> k, name |-> "v1"])
    \/ \E t \in ElemTypes : \E b \in Bases(t) :
       \E n \in 1..MaxIndices : \E ix \in [1..n -> IndexVals] :
            Call("GetElementPtr",
                 [kind |-> "GetElementPtr", name |-> "",
                  ElemType |-> t, Src |-> b, Indices |-> ix], <<>>)

Lower(kinds) ==
    /\ fn = "TranslateInstruction"
    /\ out.st = "none"
    /\ inst.kind \in kinds
    /\ out' = TranslateInstruction(inst)
    /\ UNCHANGED <<fn, inst, bits>>

LowerArith      == Lower(ArithKinds)
LowerShl        == Lower({"InstShl"})
LowerAlloca     == Lower({"InstAlloca"})
LowerBitCast    == Lower({"InstBitCast"})
LowerCall       == Lower({"InstCall"})
LowerGEP        == Lower({"InstGetElementPtr"})
LowerICmp       == Lower({"InstICmp"})
LowerLoad       == Lower({"InstLoad"})
LowerLShr       == Lower({"InstLShr"})
LowerPtrToInt   == Lower({"InstPtrToInt"})
LowerSelect     == Lower({"InstSelect"})
LowerSExt       == Lower({"InstSExt"})
LowerStore      == Lower({"InstStore"})
LowerTrunc      == Lower({"InstTrunc"})
LowerZExt       == Lower({"InstZExt"})
LowerUnsupported == Lower({"InstXor", "InstFAdd"})

Resolve ==
    /\ fn = "GetElementPtr"
    /\ out.st = "none"
    /\ out' = GetElementPtr(inst.ElemType, inst.Src, inst.Indices)
    /\ UNCHANGED <<fn, inst, bits>>

Next ==
    \/ LowerArith
    \/ LowerShl
    \/ LowerAlloca
    \/ LowerBitCast
    \/ LowerCall
    \/ LowerGEP
    \/ LowerICmp
    \/ LowerLoad
    \/ LowerLShr
    \/ LowerPtrToInt
    \/ LowerSelect
    \/ LowerSExt
    \/ LowerStore
    \/ LowerTrunc
    \/ LowerZExt
    \/ LowerUnsupported
    \/ Resolve

Spec == Init /\ [][Next]_vars

Done == out.st # "none"

-----------------------------------------------------------------------------
(* Go's integer conversions, on bit patterns (least significant bit        *)
(* first): a conversion extends a signed operand with its sign bit and an  *)
(* unsigned one with zeros, then keeps the low bits of the result width.   *)

Convert(v, w, signed) ==
    [signed |-> signed,
     b      |-> [j \in 1..w |-> IF j <= Len(v.b) THEN v.b[j]
                                ELSE IF v.signed THEN v.b[Len(v.b)] ELSE 0]]

RECURSIVE Magnitude(_, _)
Magnitude(b, n) == IF n = 0 THEN 0 ELSE b[n] * 2^(n - 1) + Magnitude(b, n - 1)

IntValue(v) ==
    LET w == Len(v.b)
    IN  IF v.signed
        THEN IF v.b[w] = 1
             THEN -Magnitude([j \in 1..w |-> 1 - v.b[j]], w - 1) - 1
             ELSE Magnitude(v.b, w - 1)
        ELSE Magnitude(v.b, w)

WidthOf(tok) == CHOOSE w \in 1..64 : ToString(w) = tok

\* the value of a chain of conversions  int<w>( uint<w>( ... x ... ))  over
\* the register x, whose Go type is the signed integer type of its width
RECURSIVE Eval(_, _)
Eval(toks, reg) ==
    IF Len(toks) = 1 THEN [signed |-> TRUE, b |-> reg]
    ELSE Convert(Eval(SubSeq(toks, 4, Len(toks) - 1), reg), WidthOf(toks[2]),
                 toks[1] = "int")

\* the right-hand side of an assignment statement
Rhs(text) == SubSeq(text, 3, Len(text))

-----------------------------------------------------------------------------
(* Properties.                                                             *)

Lowered(kinds) == fn = "TranslateInstruction" /\ Done /\ inst.kind \in kinds

LoweredGEP == Lowered({"InstGetElementPtr"})
Resolved   == fn = "GetElementPtr" /\ Done
AddressOp  == LoweredGEP \/ Resolved

WellTyped     == inst.Src.typ.k = "ptr" /\ inst.Src.typ.elem = inst.ElemType
ZeroFirst     == inst.Indices[1].k = "int" /\ inst.Indices[1].x = 0
PositiveFirst == inst.Indices[1].k = "int" /\ inst.Indices[1].x > 0

\* what the value and type renderers give for the operands of the call
Rendered(v)  == Str(Natural(v))
RenderedType == Str(GoType(inst.ElemType))

\* the expression for the base pointer moved by index 0
BaseExpr ==
    IF ZeroFirst THEN Rendered(inst.Src)
    ELSE "(*" \o RenderedType \o ")(unsafe.Pointer(uintptr(unsafe.Pointer("
         \o Rendered(inst.Src) \o ")) + "
         \o (IF PositiveFirst THEN Rendered(inst.Indices[1])
             ELSE "uintptr(int64(" \o Rendered(inst.Indices[1]) \o "))")
         \o " * unsafe.Sizeof(*(*" \o RenderedType \o ")(nil))))"

\* the subscripts and field accesses of a walk from type t along ixs
RECURSIVE Access(_, _)
Access(t, ixs) ==
    IF ixs = <<>> THEN ""
    ELSE IF t.k = "array"
    THEN "[" \o Rendered(Head(ixs)) \o "]" \o Access(t.elem, Tail(ixs))
    ELSE ".f" \o ToString(Head(ixs).x) \o Access(t.fields[Head(ixs).x + 1], Tail(ixs))

\* the frame of the call in the state before iteration n + 1 of its loop
Frame(n) ==
    IF fn = "GetElementPtr"
    THEN GepWalk(inst.ElemType, inst.Src, inst.Indices, n)
    ELSE InstGepWalk(inst, n)

\* C1: every call of TranslateInstruction returns normally, with (empty
\* text, no error), (one non-empty statement, no error) or (empty text, an
\* error); it never terminates abnormally.
C1_ThreeOutcomes ==
    fn = "TranslateInstruction" /\ Done =>
        \/ out.st = "ok" /\ out.err = <<>>
             /\ (out.text = <<>> \/ Str(out.text) # "")
        \/ out.st = "err" /\ out.text = <<>> /\ out.err # <<>>

\* C2 as stated: the resolver returns the accumulated access text without
\* an address-of prefix when indices after index 0 were walked, and the
\* base expression when the list has index 0 only.
C2_ResolverLeavesAddressOfToCaller ==
    Resolved /\ out.st = "ok" =>
        Str(out.text) = BaseExpr \o Access(inst.ElemType, Tail(inst.Indices))

\* C2 amended: GetElementPtr returns one expression; when at least one
\* index after index 0 was walked it is the accumulated access text with
\* the address-of prefix applied by GetElementPtr itself, and when the list
\* has index 0 only it is the rendered base pointer (index 0 constant zero)
\* or the reinterpret-offset expression (otherwise), without a prefix.
C2_ResolverAppliesAddressOf ==
    Resolved /\ out.st = "ok" =>
        Str(out.text) = (IF Len(inst.Indices) > 1 THEN "&" ELSE "")
                        \o BaseExpr \o Access(inst.ElemType, Tail(inst.Indices))

C2_Witness ==
    Resolved /\ out.st = "ok" /\ Len(inst.Indices) > 1 /\ ~ZeroFirst

\* C3: an address operation (instruction or stand-alone) whose base is not
\* a pointer to the declared element type returns an error and empty text
\* before any value or type renderer is invoked.
C3_MismatchBeforeRendering ==
    AddressOp /\ ~WellTyped =>
        /\ out.st = "err"
        /\ out.text = <<>>
        /\ out.calls = <<>>
        /\ Str(out.err) \in {"mismatched source and element types",
                             "non-pointer source parameter: " \o TypeString(inst.Src.typ)}

C3_Witness ==
    /\ LoweredGEP /\ ~WellTyped /\ out.st = "err"
    /\ inst.Src.typ.k = "ptr" /\ ~inst.Src.ok
    /\ ~inst.Indices[1].ok
    /\ inst.ElemType.k = "struct" /\ Len(inst.Indices) > 1 /\ inst.Indices[2].k = "reg"

SignedOffset ==
    Contains(out.text, <<")) + ", "uintptr(int64(", Rendered(inst.Indices[1]),
                         ")) * unsafe.Sizeof(*(*">>)
UnsignedOffset ==
    Contains(out.text, <<")) + ", Rendered(inst.Indices[1]), " * unsafe.Sizeof(*(*">>)

\* C4: when index 0 is not a constant zero, a successful address operation
\* has the unsigned multiply (no signed cast) exactly when index 0 is a
\* strictly positive constant, and the signed-cast offset otherwise,
\* whatever the later indices.
C4_OffsetForm ==
    AddressOp /\ out.st = "ok" /\ ~ZeroFirst =>
        /\ PositiveFirst => UnsignedOffset /\ ~SignedOffset
        /\ ~PositiveFirst => SignedOffset /\ ~UnsignedOffset

C4_Witness ==
    /\ AddressOp /\ out.st = "ok" /\ Len(inst.Indices) > 1
    /\ inst.Indices[1].k = "int" /\ inst.Indices[1].x < 0

\* C5: in the walk over indices 1..n, an array step succeeds for constant
\* and non-constant indices alike when the index renders, appending a
\* subscript and narrowing to the element type; a non-constant index into
\* a struct makes the call return an error at any depth; any other active
\* type makes it return the unsupported-type error.
C5_AggregateWalk ==
    AddressOp =>
        \A n \in 1..(Len(inst.Indices) - 1) :
            LET f     == Frame(n - 1)
                g     == Frame(n)
                index == inst.Indices[n + 1]
            IN  f.st = "run" =>
                  /\ f.currentType.k = "array" /\ index.ok =>
                        /\ g.st = "run"
                        /\ Str(g.result) = Str(f.result) \o "[" \o Rendered(index) \o "]"
                        /\ g.currentType = f.currentType.elem
                        /\ n = Len(inst.Indices) - 1 => out.st = "ok"
                  /\ f.currentType.k = "struct" /\ index.k # "int" =>
                        /\ out.st = "err"
                        /\ Head(out.err) = "non-constant index into struct: "
                  /\ f.currentType.k \notin {"array", "struct"} =>
                        /\ out.st = "err"
                        /\ Str(out.err) = "unsupported type to index into: "
                                          \o TypeString(f.currentType)

C5_Witness ==
    /\ LoweredGEP /\ Len(inst.Indices) = 3
    /\ Frame(1).st = "run" /\ Frame(1).currentType.k = "struct"
    /\ inst.Indices[2].k = "reg" /\ inst.Indices[3].k = "reg"
    /\ out.st = "err"

\* the operator of each binary arithmetic kind
OpSymbol(kind) ==
    CASE kind = "InstAdd" -> "+"
      [] kind = "InstAnd" -> "&"
      [] kind = "InstOr"  -> "|"
      [] kind = "InstMul" -> "*"
      [] kind = "InstSub" -> "-"

\* C6: add, and, or, multiply and subtract emit  result = x <op> y  when
\* both operands render; otherwise the error names the side that failed
\* and the operand of that side, the left operand being rendered first.
C6_BinaryArithmetic ==
    Lowered(ArithKinds) =>
        /\ inst.X.ok /\ inst.Y.ok =>
              /\ out.st = "ok"
              /\ Str(out.text) = inst.name \o " = " \o Rendered(inst.X) \o " "
                                 \o OpSymbol(inst.kind) \o " " \o Rendered(inst.Y)
        /\ ~inst.X.ok =>
              /\ out.st = "err"
              /\ out.err[1] = "error translating left operand ("
              /\ out.err[2] = ValueString(inst.X)
        /\ inst.X.ok /\ ~inst.Y.ok =>
              /\ out.st = "err"
              /\ out.err[1] = "error translating right operand ("
              /\ out.err[2] = ValueString(inst.Y)

\* the number of arguments rendered by a generic call: all of them, or up
\* to the first one that fails
ArgsRendered ==
    IF \A j \in 1..Len(inst.Args) : inst.Args[j].ok THEN Len(inst.Args)
    ELSE CHOOSE j \in 1..Len(inst.Args) :
            ~inst.Args[j].ok /\ \A l \in 1..(j - 1) : inst.Args[l].ok

\* C7: with a callee that renders, a call of a lifetime-hint intrinsic is
\* elided and a call of the object-size intrinsic gives  result = -1,  in
\* both cases without rendering an argument; any other call renders its
\* arguments in order and fails on the first one that does not render, with
\* its position in the error.
C7_CallIntrinsics ==
    Lowered({"InstCall"}) /\ inst.Callee.ok =>
        LET callee   == Rendered(inst.Callee)
            argCalls == Tail(out.calls)
        IN  CASE callee \in {"llvm.lifetime.start", "llvm.lifetime.end"} ->
                    out.st = "ok" /\ out.text = <<>> /\ out.err = <<>> /\ argCalls = <<>>
              [] callee = "llvm.objectsize.i64.p0i8" ->
                    out.st = "ok" /\ Str(out.text) = inst.name \o " = -1" /\ argCalls = <<>>
              [] OTHER ->
                    /\ argCalls = [j \in 1..ArgsRendered |->
                                     [fn |-> "FormatValue", arg |-> ValueString(inst.Args[j])]]
                    /\ IF \A j \in 1..Len(inst.Args) : inst.Args[j].ok
                       THEN out.st = "ok"
                       ELSE /\ out.st = "err"
                            /\ out.err[1] = "error translating argument "
                            /\ out.err[2] = ToString(ArgsRendered - 1)
                            /\ out.err[4] = ValueString(inst.Args[ArgsRendered])

C7_Witness ==
    /\ Lowered({"InstCall"}) /\ inst.Callee.ok
    /\ inst.Callee.id = "llvm.lifetime.end"
    /\ Len(inst.Args) = 2 /\ ~inst.Args[1].ok
    /\ out.st = "ok"

\* C8: a logical shift right whose operands render casts the shift to the
\* signed type of the result width exactly when the result type is an
\* integer type wider than 8 bits; from 1 to 8 bits the statement is the
\* bare  result = x >> y.
C8_ShiftRecast ==
    Lowered({"InstLShr"}) /\ inst.X.ok /\ inst.Y.ok =>
        LET shift == Str(FormatUnsigned(inst.X).text) \o " >> "
                     \o Str(FormatUnsigned(inst.Y).text)
        IN  /\ out.st = "ok"
            /\ IF inst.Typ.k = "int" /\ inst.Typ.bits > 8
               THEN Str(out.text) = inst.name \o " = int" \o ToString(inst.Typ.bits)
                                    \o "(" \o shift \o ")"
               ELSE Str(out.text) = inst.name \o " = " \o shift

C8_Witness ==
    /\ Lowered({"InstLShr"}) /\ inst.X.ok /\ inst.Y.ok
    /\ inst.Typ = IntType(8) /\ out.st = "ok"

\* the value of a bit pattern read as an unsigned and as a signed integer
UnsignedValue(b) == Magnitude(b, Len(b))
SignedValue(b)   == UnsignedValue(b) - b[Len(b)] * 2^Len(b)

\* C9: sign-extend emits one cast to the signed W-bit type of the signed
\* rendering of the source, zero-extend a cast to the signed W-bit type of an
\* unsigned W-bit re-wrap of the unsigned rendering; as two's-complement
\* integers the two differ for every source with its high bit set (0xFF
\* extended to 32 bits is -1 and 255); a destination that is not an integer
\* type is an error in both.
C9_Extension ==
    Lowered({"InstSExt", "InstZExt"}) =>
        LET W == ToString(inst.To.bits)
            s == TranslateInstruction([inst EXCEPT !.kind = "InstSExt"])
            z == TranslateInstruction([inst EXCEPT !.kind = "InstZExt"])
            sv == IntValue(Eval(Rhs(s.text), bits))
            zv == IntValue(Eval(Rhs(z.text), bits))
        IN  /\ out = IF inst.kind = "InstSExt" THEN s ELSE z
            /\ inst.To.k # "int" => s.st = "err" /\ z.st = "err"
            /\ inst.To.k = "int" /\ inst.From.ok =>
                  /\ s.st = "ok" /\ z.st = "ok"
                  /\ Str(s.text) = inst.name \o " = int" \o W \o "("
                                   \o Str(FormatSigned(inst.From).text) \o ")"
                  /\ Str(z.text) = inst.name \o " = int" \o W \o "(uint" \o W \o "("
                                   \o Str(FormatUnsigned(inst.From).text) \o "))"
                  /\ sv = SignedValue(bits)
                  /\ zv = UnsignedValue(bits)
                  /\ bits[Len(bits)] = 1 => sv # zv
                  /\ bits = <<1, 1, 1, 1, 1, 1, 1, 1>> /\ inst.To.bits = 32 =>
                        sv = -1 /\ zv = 255

C9_Witness ==
    /\ Lowered({"InstZExt"}) /\ out.st = "ok"
    /\ bits = <<1, 1, 1, 1, 1, 1, 1, 1>> /\ inst.To = IntType(32)

\* C10: on the same element type, base and indices, TranslateInstruction
\* on a getelementptr and GetElementPtr fail together and with the same
\* error, and when they succeed the statement is the result name, " = ",
\* and the expression GetElementPtr returns.
C10_InstructionAgreesWithResolver ==
    LoweredGEP =>
        LET g == GetElementPtr(inst.ElemType, inst.Src, inst.Indices)
        IN  /\ out.st = g.st
            /\ out.st = "err" => Str(out.err) = Str(g.err)
            /\ out.st = "ok" => Str(out.text) = inst.name \o " = " \o Str(g.text)

C10_Witness ==
    /\ LoweredGEP /\ out.st = "ok"
    /\ Len(inst.Indices) = 3 /\ inst.Indices[2].k = "int" /\ inst.Indices[3].k = "reg"
    /\ inst.ElemType.k = "struct"

====
